---- MODULE Spec2Model ----
(***************************************************************************)
(* A model of the BAE_Sounds signal-composition core: BaeBlock             *)
(* (src/src/bae_block.rs), BaeSound (src/src/bae_sound.rs) and BaeChannel  *)
(* (src/src/bae_channel.rs, src/src/channel.rs).                           *)
(*                                                                         *)
(* Samples are integers.  Arc<T> handles are modelled by their strong      *)
(* counts: Arc::get_mut succeeds exactly when the strong count is 1.  A    *)
(* Rust panic (an unwrap of None) stops the program: it is recorded in     *)
(* `panicked` together with the part of the state the call had already     *)
(* written, and no operation runs afterwards.                              *)
(***************************************************************************)
EXTENDS Integers, Sequences, FiniteSets, TLC

(***************************************************************************)
(* Bounds of the model.                                                    *)
(***************************************************************************)
MaxIds == 3        \* add_sound calls explored (id_counter is a usize)
MaxMods == 2       \* modifier blocks pushed onto one sound
MaxCalls == 5      \* prime and process calls made directly on blocks

Sounds == {"A", "B"}
GenBlocks == {"gA", "gB"}
ModBlocks == {"m1", "m2"}
Blocks == GenBlocks \cup ModBlocks
Gains == {1, 2}
Rates == {100, 48000}          \* samples per second
Durations == {0, 20}           \* milliseconds
Inputs == {0, 1}

None == << >>
Some(x) == << x >>

VARIABLES
    sample_rate,   \* BaeChannel.sample_rate
    output,        \* BaeChannel.output: the Vec's elements (its len is Len(output))
    capacity,      \* BaeChannel.output: the Vec's capacity
    sounds,        \* BaeChannel.sounds: id -> sound
    gain,          \* BaeChannel.gain
    id_counter,    \* BaeChannel.id_counter
    snd,           \* the BaeSound objects
    sndRefs,       \* whether the caller still holds its Arc<dyn Sound> handle (1 or 0)
    blk,           \* the BaeBlock objects
    blkRefs,       \* whether the caller still holds its Arc<BaeBlock> handle (1 or 0)
    process_time,  \* the Duration last given to set_process_time, in ms (None before)
    issued,        \* the identities add_sound has handed out, in call order
    mixLog,        \* per slot of the last process pass: what each sound returned
    trace,         \* the block calls made by the last BaeSound::process
    last,          \* the last call made and what it returned
    hist,          \* per block: the prime and process calls its holder made on it
    panicked       \* "none", or the operation whose unwrap panicked

vars == << sample_rate, output, capacity, sounds, gain, id_counter, snd, sndRefs,
           blk, blkRefs, process_time, issued, mixLog, trace, last, hist, panicked >>

chanVars == << sample_rate, output, capacity, sounds, gain, id_counter, process_time,
               issued, mixLog >>

(***************************************************************************)
(* Generators and modifiers (the bae_gen and bae_mod crates).  A generator *)
(* is a periodic wavetable oscillator whose state is its phase; Zero       *)
(* always yields 0.  Passthrough returns its input; the stateful modifier  *)
(* is a two-tap filter y[n] = x[n] + x[n-1] whose state is x[n-1].         *)
(***************************************************************************)
WaveTable == [gA |-> << 1, 2 >>, gB |-> << 3, 5 >>,
              m1 |-> << 1, 2 >>, m2 |-> << 1, 2 >>]
WavePeriod == 2

GeneratorProcess(kind, b, st) ==
    IF kind = "Zero"
    THEN [y |-> 0, st |-> st]
    ELSE [y |-> WaveTable[b][st + 1], st |-> (st + 1) % WavePeriod]

ModifierProcess(kind, st, x) ==
    IF kind = "Passthrough"
    THEN [y |-> x, st |-> st]
    ELSE [y |-> x + st, st |-> x]

(***************************************************************************)
(* BaeBlock.                                                               *)
(***************************************************************************)
\* An interactor that multiplies where generator_passthrough selects.
generator_passthrough_product(ge, mo) == ge * mo

generator_passthrough(ge, mo) == ge
\* An interactor that multiplies where modifier_passthrough selects.
modifier_passthrough_product(ge, mo) == ge * mo

modifier_passthrough(ge, mo) == mo
default_interactor(ge, mo) == ge * mo

\* A block as its constructor leaves it; `shared` lists the inner Arcs (g, m,
\* i) of which somebody else holds a clone.
from_generator ==
    [gk |-> "Wave", mk |-> "Passthrough", i |-> "generator_passthrough",
     g |-> 0, m |-> 0, input |-> 0, shared |-> {}]
from_modifier ==
    [gk |-> "Zero", mk |-> "Filter", i |-> "modifier_passthrough",
     g |-> 0, m |-> 0, input |-> 0, shared |-> {}]
new_block ==
    [gk |-> "Wave", mk |-> "Filter", i |-> "default_interactor",
     g |-> 0, m |-> 0, input |-> 0, shared |-> {}]

Interact(i, ge, mo) ==
    CASE i = "generator_passthrough" -> generator_passthrough(ge, mo)
      [] i = "modifier_passthrough" -> modifier_passthrough(ge, mo)
      [] OTHER -> default_interactor(ge, mo)

\* A prime_input that stores x instead of adding it.
prime_input_overwrite(blkRec, x) == [blkRec EXCEPT !.input = x]

\* BaeBlock::prime_input: `self.input += x`.
prime_input(blkRec, x) == [blkRec EXCEPT !.input = @ + x]

\* BaeBlock::process.  The three unwraps run in source order: the interactor's,
\* then the generator's (whose process then runs), then the modifier's.  A
\* panic leaves what ran before it.
BlockProcess(b, blkRec) ==
    IF "i" \in blkRec.shared
    THEN [blk |-> blkRec, y |-> 0, panic |-> TRUE]
    ELSE IF "g" \in blkRec.shared
    THEN [blk |-> blkRec, y |-> 0, panic |-> TRUE]
    ELSE LET ge == GeneratorProcess(blkRec.gk, b, blkRec.g)
         IN IF "m" \in blkRec.shared
            THEN [blk |-> [blkRec EXCEPT !.g = ge.st], y |-> 0, panic |-> TRUE]
            ELSE LET mo == ModifierProcess(blkRec.mk, blkRec.m, blkRec.input)
                 IN [blk |-> [blkRec EXCEPT !.g = ge.st, !.m = mo.st, !.input = 0],
                     y |-> Interact(blkRec.i, ge.y, mo.y),
                     panic |-> FALSE]

(***************************************************************************)
(* Arc strong counts.                                                      *)
(***************************************************************************)
Occurrences(seq, x) == Cardinality({k \in DOMAIN seq : seq[k] = x})

\* Entries of the channel's map that hold sound s.
Entries(map, s) == {id \in DOMAIN map : map[id] = s}

SoundStrong(map, refs, s) == refs[s] + Cardinality(Entries(map, s))

SoundAlive(map, refs, s) == SoundStrong(map, refs, s) > 0

RECURSIVE SumOver(_, _)
SumOver(f, S) ==
    IF S = {} THEN 0
    ELSE LET x == CHOOSE x \in S : TRUE IN f[x] + SumOver(f, S \ {x})

\* Strong count of block b: the caller's handles and every live sound's
\* references to it (its generator field and its modifier_list).
BlockStrong(sndSt, map, srefs, brefs, b) ==
    brefs[b]
    + SumOver([s \in Sounds |->
                 IF SoundAlive(map, srefs, s)
                 THEN (IF sndSt[s].generator = b THEN 1 ELSE 0)
                      + Occurrences(sndSt[s].modifier_list, b)
                 ELSE 0], Sounds)

(***************************************************************************)
(* BaeSound.                                                               *)
(***************************************************************************)
\* BaeSound::new followed by nothing: an empty modifier list, no identity.
new_sound(input_gain, output_gain, generator) ==
    [generator |-> generator, modifier_list |-> << >>,
     input_gain |-> input_gain, output_gain |-> output_gain,
     id |-> None, is_muted |-> FALSE, is_paused |-> FALSE]

\* One block of the chain: primed with x and processed when BlockSP::get_mut
\* gives it (excl[b]); `otherwise` is the running value when it does not.
\* run = [blk, out, trace, panic].
DriveBlock(run, excl, b, x, otherwise) ==
    IF run.panic THEN run
    ELSE IF ~excl[b] THEN [run EXCEPT !.out = otherwise]
    ELSE LET r == BlockProcess(b, prime_input(run.blk[b], x))
         IN [blk |-> [run.blk EXCEPT ![b] = r.blk],
             out |-> r.y,
             trace |-> IF r.panic
                       THEN run.trace \o << << "prime", b, x >> >>
                       ELSE run.trace \o << << "prime", b, x >>, << "process", b, r.y >> >>,
             panic |-> r.panic]

\* The generator block: `if let Some(b) = get_mut(generator) {..} else {0}`.
GeneratorStage(sr, bs, excl, input) ==
    DriveBlock([blk |-> bs, out |-> 0, trace |-> << >>, panic |-> FALSE],
               excl, sr.generator, input * sr.input_gain, 0)

\* The modifier loop run from the end of the list to its start.
RECURSIVE ModifierStageReversed(_, _, _, _)
ModifierStageReversed(list, k, run, excl) ==
    IF k > Len(list) THEN run
    ELSE ModifierStageReversed(list, k + 1,
             DriveBlock(run, excl, list[Len(list) + 1 - k], run.out, run.out), excl)

\* `for m in &mut self.modifier_list`: from index k to the end of the list.
RECURSIVE ModifierStage(_, _, _, _)
ModifierStage(list, k, run, excl) ==
    IF k > Len(list) THEN run
    ELSE ModifierStage(list, k + 1, DriveBlock(run, excl, list[k], run.out, run.out), excl)

\* A process that runs the chain first and looks at is_paused only to pick
\* the value it returns.
SoundProcessPauseLate(sr, bs, excl, input) ==
    LET fin == ModifierStage(sr.modifier_list, 1,
                             GeneratorStage(sr, bs, excl, input), excl)
    IN [blk |-> fin.blk,
        ret |-> IF sr.is_paused \/ sr.is_muted THEN 0 ELSE fin.out * sr.output_gain,
        trace |-> fin.trace,
        panic |-> fin.panic]

\* A process that treats is_muted as it treats is_paused: an early return
\* before the chain runs.
SoundProcessMuteEarly(sr, bs, excl, input) ==
    IF sr.is_paused \/ sr.is_muted
    THEN [blk |-> bs, ret |-> 0, trace |-> << >>, panic |-> FALSE]
    ELSE LET fin == ModifierStage(sr.modifier_list, 1,
                                  GeneratorStage(sr, bs, excl, input), excl)
         IN [blk |-> fin.blk,
             ret |-> fin.out * sr.output_gain,
             trace |-> fin.trace,
             panic |-> fin.panic]

\* BaeSound::process: [blk, ret, trace, panic].
SoundProcess(sr, bs, excl, input) ==
    IF sr.is_paused
    THEN [blk |-> bs, ret |-> 0, trace |-> << >>, panic |-> FALSE]
    ELSE LET fin == ModifierStage(sr.modifier_list, 1,
                                  GeneratorStage(sr, bs, excl, input), excl)
         IN [blk |-> fin.blk,
             ret |-> IF sr.is_muted THEN 0 ELSE fin.out * sr.output_gain,
             trace |-> fin.trace,
             panic |-> fin.panic]

(***************************************************************************)
(* BaeChannel.                                                             *)
(***************************************************************************)
\* `(d.as_secs_f64() * sample_rate) as usize`, d in milliseconds.
SampleCount(d, rate) == (d * rate) \div 1000

\* BaeChannel::new sizes the Vec for 10 ms.
DefaultProcessTime == 10

\* Vec::with_capacity(n): no elements, room for n.
with_capacity(n) == [elems |-> << >>, cap |-> n]

\* Vec::resize_with(new_len, SF::default): truncated, or extended by zeros.
resize_with(elems, new_len) ==
    [k \in 1..new_len |-> IF k <= Len(elems) THEN elems[k] ELSE 0]

\* The length BaeChannel::process resizes its buffer to: self.output.len().
ResizeLen(elems, cap) == Len(elems)

\* SF::from_sample (the bae_sf crate): the output format saturates.
SFMax == 100
from_sample(x) == IF x > SFMax THEN SFMax ELSE IF x < -SFMax THEN -SFMax ELSE x

\* The inner loop of BaeChannel::process over the sounds of the map, in the
\* order `order` (a sequence of ids).  mix = [blk, sample, rets, panic].
RECURSIVE MixSounds(_, _, _, _, _, _)
MixSounds(order, k, mix, map, sndSt, cnt) ==
    IF k > Len(order) \/ mix.panic THEN mix
    ELSE LET s == map[order[k]]
         IN IF cnt.sound[s] # 1
            THEN [mix EXCEPT !.panic = TRUE]
            ELSE LET r == SoundProcess(sndSt[s], mix.blk, cnt.excl, 0)
                 IN MixSounds(order, k + 1,
                              [blk |-> r.blk,
                               sample |-> IF r.panic THEN mix.sample
                                          ELSE mix.sample + from_sample(r.ret),
                               rets |-> IF r.panic THEN mix.rets
                                        ELSE mix.rets \o << r.ret >>,
                               panic |-> r.panic],
                              map, sndSt, cnt)

\* The outer loop over the slots k..Len(out).  st = [blk, out, log, panic].
RECURSIVE ProcessSlots(_, _, _, _, _, _, _)
ProcessSlots(k, st, order, map, sndSt, cnt, g) ==
    IF k > Len(st.out) \/ st.panic THEN st
    ELSE LET mix == MixSounds(order, 1,
                              [blk |-> st.blk, sample |-> st.out[k],
                               rets |-> << >>, panic |-> FALSE],
                              map, sndSt, cnt)
         IN ProcessSlots(k + 1,
                         [blk |-> mix.blk,
                          out |-> [st.out EXCEPT ![k] = IF mix.panic THEN mix.sample
                                                        ELSE mix.sample * g],
                          log |-> st.log \o << mix.rets >>,
                          panic |-> mix.panic],
                         order, map, sndSt, cnt, g)

\* The orders a HashMap may iterate its keys in.
Orders(S) == {o \in [1..Cardinality(S) -> S] : \A i, j \in DOMAIN o : i # j => o[i] # o[j]}

(***************************************************************************)
(* The state after construction: a channel from BaeChannel::new, sounds    *)
(* from BaeSound::new, each the only holder of its generator block, and    *)
(* two modifier blocks the caller still holds.                             *)
(***************************************************************************)
NoCall == [op |-> "none", sound |-> "none", id |-> 0, input |-> 0, ret |-> 0]

Call(op, s, id, input, ret) ==
    [op |-> op, sound |-> s, id |-> id, input |-> input, ret |-> ret]

\* The caller built the sounds of `built`; a sound it did not build has no
\* holder and takes no part.
Construct(rate, g, built) ==
    /\ sample_rate = rate
    /\ gain = g
    /\ output = with_capacity(SampleCount(DefaultProcessTime, rate)).elems
    /\ capacity = with_capacity(SampleCount(DefaultProcessTime, rate)).cap
    /\ sounds = << >>
    /\ id_counter = 0
    /\ snd = [s \in Sounds |-> new_sound(1, 1, IF s = "A" THEN "gA" ELSE "gB")]
    /\ sndRefs = [s \in Sounds |-> IF s \in built THEN 1 ELSE 0]
    /\ blk = [b \in Blocks |-> IF b \in GenBlocks THEN from_generator
                               ELSE IF b = "m1" THEN from_modifier ELSE new_block]
    /\ blkRefs = [b \in Blocks |-> IF b \in GenBlocks THEN 0 ELSE 1]
    /\ process_time = None
    /\ issued = << >>
    /\ mixLog = << >>
    /\ trace = << >>
    /\ last = NoCall
    /\ hist = [b \in Blocks |-> << >>]
    /\ panicked = "none"

Init == \E rate \in Rates, g \in Gains : Construct(rate, g, Sounds)

\* What Arc::get_mut answers in the current state.
Counts ==
    [sound |-> [s \in Sounds |-> SoundStrong(sounds, sndRefs, s)],
     excl |-> [b \in Blocks |-> BlockStrong(snd, sounds, sndRefs, blkRefs, b) = 1]]

\* The caller can take `&mut` to sound s: it holds the only handle.
CallerOwns(s) == sndRefs[s] = 1 /\ SoundStrong(sounds, sndRefs, s) = 1

(***************************************************************************)
(* Channel operations.                                                     *)
(***************************************************************************)
SetProcessTime(d) ==
    /\ panicked = "none"
    /\ output' = with_capacity(SampleCount(d, sample_rate)).elems
    /\ capacity' = with_capacity(SampleCount(d, sample_rate)).cap
    /\ process_time' = Some(d)
    /\ last' = Call("set_process_time", "none", 0, d, 0)
    /\ UNCHANGED << hist, sample_rate, sounds, gain, id_counter, snd, sndRefs, blk, blkRefs,
                    issued, mixLog, trace, panicked >>

SetGain(g) ==
    /\ panicked = "none"
    /\ gain' = g
    /\ last' = Call("set_gain", "none", 0, g, 0)
    /\ UNCHANGED << hist, sample_rate, output, capacity, sounds, id_counter, snd, sndRefs,
                    blk, blkRefs, process_time, issued, mixLog, trace, panicked >>

Process ==
    /\ panicked = "none"
    /\ \E order \in Orders(DOMAIN sounds) :
         \E st \in {ProcessSlots(1,
                     [blk |-> blk,
                      out |-> resize_with(output, ResizeLen(output, capacity)),
                      log |-> << >>, panic |-> FALSE],
                     order, sounds, snd, Counts, gain)} :
            /\ blk' = st.blk
            /\ output' = st.out
            /\ mixLog' = st.log
            /\ panicked' = IF st.panic THEN "process" ELSE "none"
    /\ last' = Call("process", "none", 0, 0, 0)
    /\ UNCHANGED << hist, sample_rate, capacity, sounds, gain, id_counter, snd, sndRefs,
                    blkRefs, process_time, issued, trace >>

\* get_id without its `self.id_counter += 1`.
get_id_no_increment(counter) == [id |-> counter, counter |-> counter]

\* BaeChannel::get_id: the identity handed out and the counter afterwards.
get_id(counter) == [id |-> counter, counter |-> counter + 1]

\* BaeSound::register and unregister.
register(sr, id) == [sr EXCEPT !.id = Some(id)]
unregister(sr) == [sr EXCEPT !.id = None]       \* no operation of the channel calls it

\* add_sound(&mut sound): get_id, then get_mut(sound).unwrap().register(id),
\* then the insert of a clone.
AddSound(s) ==
    /\ panicked = "none"
    /\ sndRefs[s] >= 1
    /\ id_counter < MaxIds
    /\ LET got == get_id(id_counter)
       IN /\ id_counter' = got.counter
          /\ last' = Call("add_sound", s, got.id, 0, 0)
          /\ IF SoundStrong(sounds, sndRefs, s) = 1
             THEN /\ snd' = [snd EXCEPT ![s] = register(@, got.id)]
                  /\ sounds' = [i \in DOMAIN sounds \cup {got.id} |->
                                  IF i = got.id THEN s ELSE sounds[i]]
                  /\ issued' = Append(issued, got.id)
                  /\ UNCHANGED panicked
             ELSE /\ panicked' = "add_sound"
                  /\ UNCHANGED << snd, sounds, issued >>
    /\ UNCHANGED << hist, sample_rate, output, capacity, gain, sndRefs, blk, blkRefs,
                    process_time, mixLog, trace >>

\* A removal that empties the map when it finds the id.
remove_entry_clear(map, id) == IF id \in DOMAIN map THEN << >> ELSE map

\* HashMap::remove(&id).
remove_entry(map, id) == [i \in DOMAIN map \ {id} |-> map[i]]

RemoveSound(id) ==
    /\ panicked = "none"
    /\ sounds' = remove_entry(sounds, id)
    /\ last' = Call("remove_sound", "none", id, 0, 0)
    /\ UNCHANGED << hist, sample_rate, output, capacity, gain, id_counter, snd, sndRefs,
                    blk, blkRefs, process_time, issued, mixLog, trace, panicked >>

(***************************************************************************)
(* What the caller does with its Arc<dyn Sound> handles.                   *)
(***************************************************************************)
DropSound(s) ==
    /\ panicked = "none"
    /\ sndRefs[s] >= 1
    /\ sndRefs' = [sndRefs EXCEPT ![s] = @ - 1]
    /\ last' = Call("drop_sound", s, 0, 0, 0)
    /\ UNCHANGED << chanVars, hist, snd, blk, blkRefs, trace, panicked >>

(***************************************************************************)
(* Sound operations, called through `&mut` by the handle's only holder.    *)
(***************************************************************************)
\* A toggle_pause that sets the flag instead of flipping it.
toggle_pause_set(sr) == [sr EXCEPT !.is_paused = TRUE]

toggle_pause(sr) == [sr EXCEPT !.is_paused = ~@]
toggle_mute(sr) == [sr EXCEPT !.is_muted = ~@]
is_paused(sr) == sr.is_paused
is_muted(sr) == sr.is_muted

TogglePause(s) ==
    /\ panicked = "none"
    /\ CallerOwns(s)
    /\ snd' = [snd EXCEPT ![s] = toggle_pause(@)]
    /\ last' = Call("toggle_pause", s, 0, 0, 0)
    /\ UNCHANGED << chanVars, hist, sndRefs, blk, blkRefs, trace, panicked >>

ToggleMute(s) ==
    /\ panicked = "none"
    /\ CallerOwns(s)
    /\ snd' = [snd EXCEPT ![s] = toggle_mute(@)]
    /\ last' = Call("toggle_mute", s, 0, 0, 0)
    /\ UNCHANGED << chanVars, hist, sndRefs, blk, blkRefs, trace, panicked >>

SetInputGain(s, g) ==
    /\ panicked = "none"
    /\ CallerOwns(s)
    /\ snd' = [snd EXCEPT ![s].input_gain = g]
    /\ last' = Call("set_input_gain", s, 0, g, 0)
    /\ UNCHANGED << chanVars, hist, sndRefs, blk, blkRefs, trace, panicked >>

SetOutputGain(s, g) ==
    /\ panicked = "none"
    /\ CallerOwns(s)
    /\ snd' = [snd EXCEPT ![s].output_gain = g]
    /\ last' = Call("set_output_gain", s, 0, g, 0)
    /\ UNCHANGED << chanVars, hist, sndRefs, blk, blkRefs, trace, panicked >>

\* add_modifier(m): the caller pushes a handle of block b, keeping its own
\* (it pushed a clone) or not (it moved the handle in).
AddModifier(s, b, keep) ==
    /\ panicked = "none"
    /\ CallerOwns(s)
    /\ blkRefs[b] >= 1
    /\ Len(snd[s].modifier_list) < MaxMods
    /\ snd' = [snd EXCEPT ![s].modifier_list = Append(@, b)]
    /\ blkRefs' = [blkRefs EXCEPT ![b] = IF keep THEN @ ELSE @ - 1]
    /\ last' = Call("add_modifier", s, 0, 0, 0)
    /\ UNCHANGED << chanVars, hist, sndRefs, blk, trace, panicked >>

\* sound.process(input), called by the caller.
SoundProcessCall(s, input) ==
    /\ panicked = "none"
    /\ CallerOwns(s)
    /\ \E r \in {SoundProcess(snd[s], blk, Counts.excl, input)} :
          /\ blk' = r.blk
          /\ trace' = r.trace
          /\ panicked' = IF r.panic THEN "sound_process" ELSE "none"
          /\ last' = Call("sound_process", s, 0, input, r.ret)
    /\ UNCHANGED << chanVars, hist, snd, sndRefs, blkRefs >>

(***************************************************************************)
(* What the caller does with its Arc<BaeBlock> handles.                    *)
(***************************************************************************)
DropBlock(b) ==
    /\ panicked = "none"
    /\ blkRefs[b] >= 1
    /\ blkRefs' = [blkRefs EXCEPT ![b] = @ - 1]
    /\ last' = Call("drop_block", b, 0, 0, 0)
    /\ UNCHANGED << chanVars, hist, snd, sndRefs, blk, trace, panicked >>

\* block.get_g().clone() or block.get_m().clone(): the caller keeps a handle
\* on the block's generator or modifier.  The model follows one such clone.
CloneInner(b, part) ==
    /\ panicked = "none"
    /\ blkRefs[b] >= 1
    /\ \A c \in Blocks : blk[c].shared = {}
    /\ blk' = [blk EXCEPT ![b].shared = @ \cup {part}]
    /\ last' = Call("clone_inner", b, 0, 0, 0)
    /\ UNCHANGED << chanVars, hist, snd, sndRefs, blkRefs, trace, panicked >>

(***************************************************************************)
(* Block operations, called through `&mut` by the block's only holder (as  *)
(* test_blocks does).                                                      *)
(***************************************************************************)
CallerOwnsBlock(b) == blkRefs[b] = 1 /\ Counts.excl[b]

\* The number of calls recorded in hist.
TotalCalls == SumOver([b \in Blocks |-> Len(hist[b])], Blocks)

\* block.prime_input(x).
BlockPrime(b, x) ==
    /\ panicked = "none"
    /\ CallerOwnsBlock(b)
    /\ TotalCalls < MaxCalls
    /\ blk' = [blk EXCEPT ![b] = prime_input(@, x)]
    /\ hist' = [hist EXCEPT ![b] = Append(@, << "prime", x >>)]
    /\ last' = Call("block_prime", b, 0, x, 0)
    /\ UNCHANGED << chanVars, snd, sndRefs, blkRefs, trace, panicked >>

\* block.process().
BlockProcessCall(b) ==
    /\ panicked = "none"
    /\ CallerOwnsBlock(b)
    /\ TotalCalls < MaxCalls
    /\ \E r \in {BlockProcess(b, blk[b])} :
          /\ blk' = [blk EXCEPT ![b] = r.blk]
          /\ panicked' = IF r.panic THEN "block_process" ELSE "none"
          /\ hist' = IF r.panic THEN hist
                     ELSE [hist EXCEPT ![b] = Append(@, << "process", r.y >>)]
          /\ last' = Call("block_process", b, 0, 0, r.y)
    /\ UNCHANGED << chanVars, snd, sndRefs, blkRefs, trace >>

(***************************************************************************)
(* Specifications.  Spec: the channel and the handles on its sounds.       *)
(* SoundSpec: sounds driven directly by the code that built them.          *)
(***************************************************************************)
Next ==
    \/ \E d \in Durations : SetProcessTime(d)
    \/ \E g \in Gains : SetGain(g)
    \/ Process
    \/ \E s \in Sounds : AddSound(s)
    \/ \E id \in 0..MaxIds : RemoveSound(id)
    \/ \E s \in Sounds : DropSound(s)
    \/ \E s \in Sounds : TogglePause(s)
    \/ \E s \in Sounds : ToggleMute(s)

Spec == Init /\ [][Next]_vars

SoundInit == Construct(48000, 1, {"A"})

SoundNext ==
    \/ \E s \in Sounds, x \in Inputs : SoundProcessCall(s, x)
    \/ \E s \in Sounds : TogglePause(s)
    \/ \E s \in Sounds : ToggleMute(s)
    \/ \E s \in Sounds, g \in Gains : SetInputGain(s, g)
    \/ \E s \in Sounds, g \in Gains : SetOutputGain(s, g)
    \/ \E s \in Sounds, b \in Blocks, keep \in BOOLEAN : AddModifier(s, b, keep)
    \/ \E b \in Blocks : DropBlock(b)
    \/ \E b \in Blocks, part \in {"g", "m"} : CloneInner(b, part)

SoundSpec == SoundInit /\ [][SoundNext]_vars

\* ShareSpec: two sounds, driven directly, that the caller gives modifier
\* blocks to; a block pushed onto both is shared between them.
ShareInit == Construct(48000, 1, Sounds)

ShareNext ==
    \/ \E s \in Sounds, x \in Inputs : SoundProcessCall(s, x)
    \/ \E s \in Sounds, b \in Blocks, keep \in BOOLEAN : AddModifier(s, b, keep)
    \/ \E b \in Blocks : DropBlock(b)

ShareSpec == ShareInit /\ [][ShareNext]_vars

\* BlockSpec: blocks driven directly.  The caller holds the blocks it built
\* with from_generator, from_modifier and new; no sound exists.
HeldBlocks == {"gA", "m1", "m2"}

BlockInit ==
    /\ sample_rate = 48000
    /\ gain = 1
    /\ output = with_capacity(SampleCount(DefaultProcessTime, 48000)).elems
    /\ capacity = with_capacity(SampleCount(DefaultProcessTime, 48000)).cap
    /\ sounds = << >>
    /\ id_counter = 0
    /\ snd = [s \in Sounds |-> new_sound(1, 1, IF s = "A" THEN "gA" ELSE "gB")]
    /\ sndRefs = [s \in Sounds |-> 0]
    /\ blk = [b \in Blocks |-> IF b \in GenBlocks THEN from_generator
                               ELSE IF b = "m1" THEN from_modifier ELSE new_block]
    /\ blkRefs = [b \in Blocks |-> IF b \in HeldBlocks THEN 1 ELSE 0]
    /\ process_time = None
    /\ issued = << >>
    /\ mixLog = << >>
    /\ trace = << >>
    /\ last = NoCall
    /\ hist = [b \in Blocks |-> << >>]
    /\ panicked = "none"

BlockNext ==
    \/ \E b \in Blocks, x \in Inputs : BlockPrime(b, x)
    \/ \E b \in Blocks : BlockProcessCall(b)
    \/ \E b \in Blocks, part \in {"g", "m"} : CloneInner(b, part)

BlockSpec == BlockInit /\ [][BlockNext]_vars

(***************************************************************************)
(* Definitions the properties share.                                       *)
(***************************************************************************)
\* The number of samples of the configured processing window.
WindowLen ==
    IF process_time = None THEN SampleCount(DefaultProcessTime, sample_rate)
    ELSE SampleCount(process_time[1], sample_rate)

RECURSIVE SeqSum(_)
SeqSum(seq) == IF seq = << >> THEN 0 ELSE Head(seq) + SeqSum(Tail(seq))

\* The k-th sample a fresh generator of block b yields when called directly.
RawGenerator(b, k) == WaveTable[b][((k - 1) % WavePeriod) + 1]

\* The sum of the values primed after the last process call recorded in h.
RECURSIVE PrimedSince(_)
PrimedSince(h) ==
    IF h = << >> \/ h[Len(h)][1] = "process" THEN 0
    ELSE h[Len(h)][2] + PrimedSince(SubSeq(h, 1, Len(h) - 1))

\* The samples the process calls recorded in h returned, in call order.
RECURSIVE ProcessOutputs(_)
ProcessOutputs(h) ==
    IF h = << >> THEN << >>
    ELSE IF Head(h)[1] = "process" THEN << Head(h)[2] >> \o ProcessOutputs(Tail(h))
    ELSE ProcessOutputs(Tail(h))

\* The accumulated inputs the process calls recorded in h were made with:
\* per process call, the sum primed since the call before it (acc so far).
RECURSIVE ProcessInputs(_, _)
ProcessInputs(h, acc) ==
    IF h = << >> THEN << >>
    ELSE IF Head(h)[1] = "prime" THEN ProcessInputs(Tail(h), acc + Head(h)[2])
    ELSE << acc >> \o ProcessInputs(Tail(h), 0)

\* What a modifier in state st returns when called directly with the inputs xs.
RECURSIVE ModifierRun(_, _, _)
ModifierRun(kind, st, xs) ==
    IF xs = << >> THEN << >>
    ELSE << ModifierProcess(kind, st, Head(xs)).y >>
         \o ModifierRun(kind, ModifierProcess(kind, st, Head(xs)).st, Tail(xs))

\* The blocks of sound record sr, the generator first.
Chain(sr) == << sr.generator >> \o sr.modifier_list

AllExclusive(sr) == \A k \in DOMAIN Chain(sr) : Counts.excl[Chain(sr)[k]]

\* Block b is referenced by both sounds, once by each, and by nobody else.
SharedByBoth(b) ==
    /\ blkRefs[b] = 0
    /\ \A s \in Sounds :
           /\ SoundAlive(sounds, sndRefs, s)
           /\ Occurrences(Chain(snd[s]), b) = 1

\* The blocks of sr's chain that BlockSP::get_mut gives, in chain order.
ExclusiveChain(sr) == SelectSeq(Chain(sr), LAMBDA b : Counts.excl[b])

(***************************************************************************)
(* Properties of the channel, checked under Spec.                          *)
(***************************************************************************)

C2_BufferResize ==
    (last.op = "process" /\ panicked = "none" /\ process_time # None) =>
        Len(output) = SampleCount(process_time[1], sample_rate)

\* C3: on a channel built by new(1, sample_rate) with no set_process_time
\* call, process() with one registered generator-only sound yields
\* floor(0.01 * sample_rate) entries, entry k being the generator's k-th output.
C3_DefaultWindow ==
    (/\ last.op = "process" /\ panicked = "none"
     /\ process_time = None /\ gain = 1
     /\ Cardinality(DOMAIN sounds) = 1
     /\ \A id \in DOMAIN sounds :
            /\ snd[sounds[id]].modifier_list = << >>
            /\ ~snd[sounds[id]].is_paused /\ ~snd[sounds[id]].is_muted) =>
        /\ Len(output) = SampleCount(DefaultProcessTime, sample_rate)
        /\ \A id \in DOMAIN sounds : \A k \in DOMAIN output :
               output[k] = RawGenerator(snd[sounds[id]].generator, k)

\* C4: add_sound on a sound the map already holds succeeds: the sound gets a
\* second, distinct identity and the map holds two entries for it.
C4_AddTwice ==
    \A s \in Sounds :
        (/\ last.op = "add_sound" /\ last.sound = s
         /\ \E id \in DOMAIN sounds : id # last.id /\ sounds[id] = s) =>
            /\ panicked = "none"
            /\ last.id \in DOMAIN sounds
            /\ sounds[last.id] = s
            /\ Cardinality(Entries(sounds, s)) >= 2

\* C5: the identities add_sound hands out are strictly increasing in call
\* order (so pairwise distinct, and a freed identity is never handed out
\* again); the map's keys are among them and below the counter.
C5_IdsIncreasing ==
    /\ \A i, j \in DOMAIN issued : i < j => issued[i] < issued[j]
    /\ \A i \in DOMAIN issued : issued[i] < id_counter
    /\ \A id \in DOMAIN sounds : \E i \in DOMAIN issued : issued[i] = id

\* Three identities handed out, the first of them freed before the last add.
C5_Witness ==
    /\ Len(issued) = 3
    /\ issued[1] \notin DOMAIN sounds
    /\ issued[3] \in DOMAIN sounds
    /\ last.op = "add_sound"

C7_RemoveFrame ==
    [][last'.op = "remove_sound" =>
         /\ sounds' = [i \in DOMAIN sounds \ {last'.id} |-> sounds[i]]
         /\ panicked' = "none"
         /\ UNCHANGED << sample_rate, output, capacity, gain, id_counter,
                         process_time, issued, snd, sndRefs, blk, blkRefs >>]_vars

\* remove_sound has removed one of two registered sounds.
C7_Witness ==
    /\ last.op = "remove_sound"
    /\ last.id \notin DOMAIN sounds
    /\ \E i \in DOMAIN issued : issued[i] = last.id
    /\ DOMAIN sounds # {}

C8_IdentityWhileMixed ==
    \A s \in Sounds :
        /\ snd[s].id # None => snd[s].id[1] \in DOMAIN sounds /\ sounds[snd[s].id[1]] = s
        /\ Entries(sounds, s) # {} => snd[s].id # None

(***************************************************************************)
(* Properties of one sound, checked under SoundSpec.                       *)
(***************************************************************************)

\* C9: process(input) on an unpaused, unmuted sound whose blocks are all
\* exclusively held primes the generator block with input * input_gain and
\* processes it, then primes each modifier block, in list order, with the
\* result of the block before it and processes it, each block once, and
\* returns the last result * output_gain.
C9_ChainOrder ==
    \A s \in Sounds :
        (/\ last.op = "sound_process" /\ last.sound = s /\ panicked = "none"
         /\ ~snd[s].is_paused /\ ~snd[s].is_muted
         /\ AllExclusive(snd[s])) =>
            LET chain == Chain(snd[s])
                n == Len(chain)
            IN /\ Len(trace) = 2 * n
               /\ \A k \in 1..n :
                      /\ trace[2 * k - 1][1] = "prime"
                      /\ trace[2 * k - 1][2] = chain[k]
                      /\ trace[2 * k][1] = "process"
                      /\ trace[2 * k][2] = chain[k]
                      /\ trace[2 * k - 1][3] =
                             IF k = 1 THEN last.input * snd[s].input_gain
                             ELSE trace[2 * k - 2][3]
                      /\ blk[chain[k]].input = 0
                      /\ blk[chain[k]].mk = "Filter" => blk[chain[k]].m = trace[2 * k - 1][3]
               /\ last.ret = trace[2 * n][3] * snd[s].output_gain

\* A sound with two different modifier blocks and gains of 2 has processed
\* the input 1 a second time.
C9_Witness ==
    /\ last.op = "sound_process" /\ last.sound = "A" /\ panicked = "none"
    /\ last.input = 1
    /\ ~snd["A"].is_paused /\ ~snd["A"].is_muted
    /\ snd["A"].modifier_list = << "m2", "m1" >>
    /\ snd["A"].input_gain = 2 /\ snd["A"].output_gain = 2
    /\ AllExclusive(snd["A"])
    /\ blk["gA"].g = 0
    /\ last.ret # 0

\* C10: process(input) on a paused sound returns zero and changes no block
\* and no field of the sound, so that the calls made after pause is toggled
\* off see the state the last unpaused call left.
C10_PauseFreezes ==
    [][(last'.op = "sound_process" /\ snd[last'.sound].is_paused) =>
         /\ last'.ret = 0
         /\ blk' = blk
         /\ snd' = snd
         /\ panicked' = "none"]_vars

\* A paused sound with a modifier, whose generator had advanced before the
\* pause, has been processed.
C10_Witness ==
    /\ last.op = "sound_process" /\ last.sound = "A"
    /\ snd["A"].is_paused
    /\ Len(snd["A"].modifier_list) >= 1
    /\ AllExclusive(snd["A"])
    /\ blk["gA"].g = 1
    /\ last.ret = 0

\* C11: muting never perturbs state evolution.  A process call on an unpaused
\* sound leaves every block in the state, and makes the block calls, that
\* the same call on a never-muted copy of the sound in the same state would;
\* the muted call returns zero and the unmuted call returns what the copy
\* returns.  Two identical sounds fed the same inputs therefore have equal
\* block states after every call, whichever of them is muted, and equal
\* outputs once both are unmuted.
C11_MuteTransparent ==
    [][(last'.op = "sound_process" /\ ~snd[last'.sound].is_paused) =>
         \E twin \in {SoundProcess([snd[last'.sound] EXCEPT !.is_muted = FALSE],
                                   blk, Counts.excl, last'.input)} :
            /\ blk' = twin.blk
            /\ trace' = twin.trace
            /\ (panicked' # "none") = twin.panic
            /\ snd' = snd
            /\ (panicked' = "none" /\ snd[last'.sound].is_muted) => last'.ret = 0
            /\ (panicked' = "none" /\ ~snd[last'.sound].is_muted) =>
                   last'.ret = twin.ret]_vars

\* A muted sound with the stateful modifier m1 has been processed: the chain
\* ran, its last block returned a non-zero sample and left a non-zero filter
\* state, and the call returned zero.
C11_Witness ==
    /\ last.op = "sound_process" /\ last.sound = "A" /\ panicked = "none"
    /\ snd["A"].is_muted /\ ~snd["A"].is_paused
    /\ snd["A"].modifier_list = << "m1" >>
    /\ AllExclusive(snd["A"])
    /\ Len(trace) = 4
    /\ trace[4][3] # 0
    /\ blk["m1"].m # 0
    /\ last.ret = 0

\* C16: a sound starts with both flags false; toggle_pause flips is_paused
\* and toggle_mute flips is_muted, as is_paused() and is_muted() then report,
\* and neither changes anything else (the other flag, the identity, the
\* gains, the block references, the blocks, the channel); the same toggle
\* made again gives back the sound as it was.
C16_TogglesOnlyFlags ==
    /\ \A s \in Sounds : ~is_paused(snd[s]) /\ ~is_muted(snd[s])
    /\ [][/\ last'.op = "toggle_pause" =>
               /\ is_paused(snd'[last'.sound]) = ~is_paused(snd[last'.sound])
               /\ snd' = [snd EXCEPT ![last'.sound].is_paused = ~@]
               /\ toggle_pause(snd'[last'.sound]) = snd[last'.sound]
               /\ UNCHANGED << chanVars, sndRefs, blk, blkRefs, panicked >>
          /\ last'.op = "toggle_mute" =>
               /\ is_muted(snd'[last'.sound]) = ~is_muted(snd[last'.sound])
               /\ snd' = [snd EXCEPT ![last'.sound].is_muted = ~@]
               /\ toggle_mute(snd'[last'.sound]) = snd[last'.sound]
               /\ UNCHANGED << chanVars, sndRefs, blk, blkRefs, panicked >>]_vars

\* A sound with a modifier, gains of 2 and an advanced generator, muted, has
\* just had pause toggled off again.
C16_Witness ==
    /\ last.op = "toggle_pause" /\ last.sound = "A"
    /\ ~is_paused(snd["A"]) /\ is_muted(snd["A"])
    /\ Len(snd["A"].modifier_list) >= 1
    /\ snd["A"].input_gain = 2 /\ snd["A"].output_gain = 2
    /\ blk["gA"].g = 1

\* C19: process(input) on an unpaused sound some of whose blocks are not
\* exclusively held does not fail; it primes and processes exactly the
\* exclusively held blocks, in chain order, and leaves the others as they
\* were.  The running value starts at zero when the generator block is not
\* exclusive, passes a non-exclusive modifier block unchanged, and the call
\* returns the running value * output_gain, or zero when muted.
C19_NonExclusiveFallback ==
    [][(/\ last'.op = "sound_process"
        /\ ~snd[last'.sound].is_paused
        /\ ~AllExclusive(snd[last'.sound])) =>
          \E ex \in {ExclusiveChain(snd[last'.sound])} :
             /\ panicked' = "none"
             /\ \A b \in Blocks : ~Counts.excl[b] => blk'[b] = blk[b]
             /\ Len(trace') = 2 * Len(ex)
             /\ \A j \in DOMAIN ex :
                    /\ trace'[2 * j - 1][1] = "prime" /\ trace'[2 * j - 1][2] = ex[j]
                    /\ trace'[2 * j][1] = "process" /\ trace'[2 * j][2] = ex[j]
                    /\ trace'[2 * j - 1][3] =
                          IF j > 1 THEN trace'[2 * j - 2][3]
                          ELSE IF Counts.excl[snd[last'.sound].generator]
                               THEN last'.input * snd[last'.sound].input_gain
                               ELSE 0
             /\ last'.ret =
                   IF snd[last'.sound].is_muted THEN 0
                   ELSE (IF ex = << >> THEN 0 ELSE trace'[2 * Len(ex)][3])
                        * snd[last'.sound].output_gain]_vars

(***************************************************************************)
(* Properties of two sounds sharing a block, checked under ShareSpec.      *)
(***************************************************************************)

\* C15: a block referenced by two sounds is processed normally by the first
\* sound to reach it in a pass (only a second caller in the same pass falls
\* back to skipping it).  A process call that does not follow another
\* sound's process call is the first of its pass: it primes and processes
\* every block it shares with the other sound, once.
C15_FirstCallerAdvances ==
    [][(/\ last'.op = "sound_process" /\ panicked' = "none"
        /\ last.op # "sound_process"
        /\ ~snd[last'.sound].is_paused) =>
          \A b \in Blocks :
              SharedByBoth(b) =>
                  Cardinality({k \in DOMAIN trace' :
                                 trace'[k][1] = "process" /\ trace'[k][2] = b}) = 1]_vars

(***************************************************************************)
(* Properties of one block, checked under BlockSpec.                       *)
(***************************************************************************)

\* C12: the accumulated input of a block is always the sum of the values
\* primed since its previous process call (zero when there were none); a
\* process call gives its modifier that sum, so that a process without a
\* prime is a process after prime(0), and leaves the accumulated input zero.
C12_InputAccumulates ==
    [][/\ \A b \in Blocks : blk'[b].input = PrimedSince(hist'[b])
       /\ (last'.op = "block_process" /\ panicked' = "none") =>
             \E mo \in {ModifierProcess(blk[last'.sound].mk, blk[last'.sound].m,
                                        PrimedSince(hist[last'.sound]))} :
                /\ blk'[last'.sound].input = 0
                /\ blk'[last'.sound].m = mo.st
                /\ last'.ret =
                      Interact(blk[last'.sound].i,
                               GeneratorProcess(blk[last'.sound].gk, last'.sound,
                                                blk[last'.sound].g).y,
                               mo.y)]_vars

\* The block m2 (generator * stateful modifier) was primed with 1 twice and
\* then processed: its modifier saw 2.
C12_Witness ==
    /\ last.op = "block_process" /\ last.sound = "m2" /\ panicked = "none"
    /\ Len(hist["m2"]) >= 3
    /\ hist["m2"][Len(hist["m2"]) - 1] = << "prime", 1 >>
    /\ hist["m2"][Len(hist["m2"]) - 2] = << "prime", 1 >>
    /\ blk["m2"].m = 2
    /\ blk["m2"].input = 0
    /\ last.ret # 0

\* C13: the samples a from_generator block's process calls return are, in
\* call order, the samples its generator yields when called directly, for
\* any number of calls and whatever was primed in between; the generator
\* has advanced one step per process call.
C13_GeneratorPassthrough ==
    \A b \in GenBlocks :
        /\ \A k \in DOMAIN ProcessOutputs(hist[b]) :
               ProcessOutputs(hist[b])[k] = RawGenerator(b, k)
        /\ panicked = "none" =>
               blk[b].g = Len(ProcessOutputs(hist[b])) % WavePeriod

\* The from_generator block gA has been processed three times, with the
\* value 1 primed before the second and the third call.
C13_Witness ==
    /\ last.op = "block_process" /\ last.sound = "gA" /\ panicked = "none"
    /\ Len(ProcessOutputs(hist["gA"])) = 3
    /\ hist["gA"] = << << "process", RawGenerator("gA", 1) >>, << "prime", 1 >>,
                       << "process", RawGenerator("gA", 2) >>, << "prime", 1 >>,
                       << "process", RawGenerator("gA", 3) >> >>

\* C17: the samples a from_modifier block's process calls return are what
\* its modifier returns when called directly with, per call, the input
\* accumulated since the call before; the Zero generator adds nothing.
C17_ModifierPassthrough ==
    \A b \in Blocks :
        (blk[b].gk = from_modifier.gk /\ blk[b].i = from_modifier.i) =>
            ProcessOutputs(hist[b]) =
                ModifierRun(blk[b].mk, from_modifier.m, ProcessInputs(hist[b], 0))

\* The from_modifier block m1 was primed with 1 and processed, then primed
\* with 1 twice and processed: the filter returned 1 and then 2 + 1.
C17_Witness ==
    /\ last.op = "block_process" /\ last.sound = "m1" /\ panicked = "none"
    /\ hist["m1"] = << << "prime", 1 >>, << "process", 1 >>, << "prime", 1 >>,
                       << "prime", 1 >>, << "process", 3 >> >>
    /\ last.ret = 3

\* C18: process on a block has no failure mode: whatever the caller did
\* before, get_g().clone() and get_m().clone() included, the call returns a
\* sample and leaves the accumulated input zero.
C18_BlockProcessTotal ==
    (last.op = "block_process") =>
        /\ panicked = "none"
        /\ blk[last.sound].input = 0

====
